---- MODULE Spec2Model ----
(***************************************************************************)
(* Model of the WT1 GitLab dashboard: the OAuth callback that mints the    *)
(* session credential (authController.callback), the credential verifier  *)
(* (authMiddleware.isAuthenticated), the aggregation handler               *)
(* (homeController.home) and the browser client (public homeController.js).*)
(* One instance of every request handler is modelled; every action is one  *)
(* run of the single-threaded event loop between two awaits.               *)
(***************************************************************************)
EXTENDS Integers, Sequences, FiniteSets, TLC

\* --------------------------------------------------------------- constants
\* jwt.sign(..., { expiresIn: '1h' }), in seconds.
ExpiresIn == 3600
\* params: { per_page: 3 } of the groups GET, { per_page: 5 } of a group's
\* project list, { per_page: 1 } of a project's commits: the most items the
\* provider returns for each.
GroupsPerPage == 3
ProjectsPerPage == 5
CommitsPerPage == 1

\* ------------------------------------------------------------------ bounds
\* The wall clock advances at most this many times, half a lifetime each.
MaxTicks == 2
TickStep == ExpiresIn \div 2
\* All groups of one response together hold at most this many projects.
MaxProjectsTotal == 3
\* The browser issues at most this many fetches.
MaxRequests == 4

\* process.env.JWT_SECRET, and a secret the server does not hold.
JWT_SECRET == "jwt-secret"
OtherSecret == "attacker-secret"

\* The access tokens the provider may answer the token exchange with, and the
\* profile it answers the profile GET with: that of the bearer token's owner.
AccessTokens == {"at1", "at2"}
Owner(at) == IF at = "at1" THEN "alice" ELSE "bob"

\* JavaScript's undefined, and a hole of a Promise.all result array.
Undefined == [type |-> "undefined"]
Hole == [type |-> "hole"]

VARIABLES
  now,          \* wall clock, seconds
  cbPc,         \* callback: "idle", "awaitToken", "awaitUser", "done"
  cbQuery,      \* callback: req.query
  accessToken,  \* callback: const accessToken
  oauthLog,     \* callback: the outbound calls it issued, in order, with
                \*           the outcome of each
  cbRes,        \* callback: the responses it sent, in order
  pc,           \* /home/auth: "none", "awaitActivities", "awaitGroups",
                \*             "awaitAll", "done"
  reqHeader,    \* /home/auth: req.headers.authorization
  reqUser,      \* /home/auth: req.user
  res,          \* /home/auth: the responses sent, in order
  issued,       \* /home/auth: upstream calls issued, [url, bearer]
  served,       \* upstream: what it answered, <<url, data>>
  failed,       \* upstream: the urls of the calls that failed
  late,         \* upstream: the calls issued after some call had failed
  activities,   \* home: activitiesResponse.data
  groups,       \* home: groupsResponse.data
  projCall,     \* home: per group index, state of its project-list GET
  projects,     \* home: per group index, projectsResponse.data
  commitCall,   \* home: per group and project index, state of the commits GET
  innerAll,     \* home: per group index, Promise.all(projects.map(...))
  outerAll,     \* home: Promise.all(groups.map(...))
  page,         \* browser: "loading", "ready", "away"
  urlToken,     \* browser: the token parameter of window.location.search
  storage,      \* browser: localStorage's token
  ui,           \* browser: which of the two views is shown
  content,      \* browser: what the user-data elements hold
  alerts,       \* browser: the alerts shown
  inflight,     \* browser: the page's fetches awaiting their response
  nextId,       \* browser: number of the next fetch
  lastEvent     \* browser: the event the page handled last

cbVars == <<cbPc, cbQuery, accessToken, oauthLog, cbRes>>
homeVars == <<pc, reqHeader, reqUser, res, issued, served, failed, late,
              activities, groups,
              projCall, projects, commitCall, innerAll, outerAll>>
clientVars == <<page, urlToken, storage, ui, content, alerts, inflight, nextId,
                lastEvent>>
vars == <<page, urlToken, storage, ui, content, alerts, inflight, nextId, lastEvent,
          now, cbPc, cbQuery, accessToken, oauthLog, cbRes, pc, reqHeader,
          reqUser, res, issued, served, failed, late, activities, groups,
          projCall, projects,
          commitCall, innerAll, outerAll>>

\* ------------------------------------------------------------ jsonwebtoken
\* HMAC of a payload under a secret: an ideal MAC, it names both.
Hmac(payload, secret) == [key |-> secret, over |-> payload]

\* jwt.sign(payload, secret, { expiresIn }) at time t.
JwtSign(payload, secret, t) ==
  LET claims == [user |-> payload.user, accessToken |-> payload.accessToken,
                 iat |-> t, exp |-> t + ExpiresIn]
  IN [str |-> "jwt", payload |-> claims, sig |-> Hmac(claims, secret)]

\* Pieces of a header string: a space, the scheme word, a string that is no
\* JWT. A string is a sequence of pieces, the empty string is <<>>.
SP == [str |-> " "]
Bearer == [str |-> "Bearer"]
Garbage == [str |-> "garbage"]

\* A string that jwt.verify can decode at all: exactly one signed token.
IsJwt(tok) == Len(tok) = 1 /\ tok[1].str = "jwt"

\* jwt.verify(token, secret) at time t: the decoded payload, or Undefined
\* where the library throws (malformed, bad signature, expired).
JwtVerifyNoExpiry(tok, secret, t) ==
  IF ~IsJwt(tok) THEN Undefined
  ELSE IF tok[1].sig # Hmac(tok[1].payload, secret) THEN Undefined
  ELSE tok[1].payload

JwtVerifyNoSignature(tok, secret, t) ==
  IF ~IsJwt(tok) THEN Undefined
  ELSE IF t >= tok[1].payload.exp THEN Undefined
  ELSE tok[1].payload

JwtVerify(tok, secret, t) ==
  IF ~IsJwt(tok) THEN Undefined
  ELSE IF tok[1].sig # Hmac(tok[1].payload, secret) THEN Undefined
  ELSE IF t >= tok[1].payload.exp THEN Undefined
  ELSE tok[1].payload

\* ------------------------------------------------------------- the callback
\* req.query.code: absent, empty, or a code.
Queries == {[present |-> FALSE, code |-> ""], [present |-> TRUE, code |-> ""],
            [present |-> TRUE, code |-> "authcode"]}

\* !code
NoCodeEmptyOnly(q) == q.present /\ q.code = ""

NoCode(q) == ~q.present \/ q.code = ""

BadRequest == [status |-> 400, body |-> "Authorization code is missing"]
OAuthError == [status |-> 500, body |-> "Error during OAuth flow"]
StorePage(jwt) == [status |-> 200, body |-> "localStorage.setItem", token |-> jwt]

TokenPost(code) ==
  [method |-> "POST", url |-> "oauth/token", with |-> code, outcome |-> "pending"]
UserGet(bearer) ==
  [method |-> "GET", url |-> "api/v4/user", with |-> bearer, outcome |-> "pending"]

\* The last call of the log has ended.
Ended(log, how) == [log EXCEPT ![Len(log)].outcome = how]

\* GET /callback arrives: the 400, or the token-exchange POST is issued.
callback(q) ==
  /\ cbPc = "idle"
  /\ pc = "none"
  /\ cbQuery' = q
  /\ IF NoCode(q)
     THEN /\ cbRes' = Append(cbRes, BadRequest)
          /\ cbPc' = "done"
          /\ UNCHANGED oauthLog
     ELSE /\ oauthLog' = Append(oauthLog, TokenPost(q.code))
          /\ cbPc' = "awaitToken"
          /\ UNCHANGED cbRes
  /\ UNCHANGED <<clientVars, now, accessToken, homeVars>>

\* The token exchange answered: the profile GET is issued with the new token.
TokenExchangeOk(at) ==
  /\ cbPc = "awaitToken"
  /\ accessToken' = at
  /\ oauthLog' = Append(Ended(oauthLog, "ok"), UserGet(at))
  /\ cbPc' = "awaitUser"
  /\ UNCHANGED <<clientVars, now, cbQuery, cbRes, homeVars>>

\* The token exchange failed: catch, the generic 500.
TokenExchangeFail ==
  /\ cbPc = "awaitToken"
  /\ oauthLog' = Ended(oauthLog, "failed")
  /\ cbRes' = Append(cbRes, OAuthError)
  /\ cbPc' = "done"
  /\ UNCHANGED <<clientVars, now, cbQuery, accessToken, homeVars>>

\* The profile GET answered: the credential is signed and sent in the page.
UserOk ==
  /\ cbPc = "awaitUser"
  /\ cbRes' = Append(cbRes,
       StorePage(JwtSign([user |-> Owner(accessToken), accessToken |-> accessToken],
                         JWT_SECRET, now)))
  /\ oauthLog' = Ended(oauthLog, "ok")
  /\ cbPc' = "done"
  /\ UNCHANGED <<clientVars, now, cbQuery, accessToken, homeVars>>

\* The profile GET failed: catch, the generic 500.
UserFailStillMints ==
  /\ cbPc = "awaitUser"
  /\ oauthLog' = Ended(oauthLog, "failed")
  /\ cbRes' = Append(cbRes,
       StorePage(JwtSign([user |-> "unknown", accessToken |-> accessToken],
                         JWT_SECRET, now)))
  /\ cbPc' = "done"
  /\ UNCHANGED <<clientVars, now, cbQuery, accessToken, homeVars>>

UserFail ==
  /\ cbPc = "awaitUser"
  /\ oauthLog' = Ended(oauthLog, "failed")
  /\ cbRes' = Append(cbRes, OAuthError)
  /\ cbPc' = "done"
  /\ UNCHANGED <<clientVars, now, cbQuery, accessToken, homeVars>>

\* Time passes. Only jwt.sign and jwt.verify read the clock, and only the time
\* between the two matters: the clock runs from the callback's answer to the
\* arrival of the /home/auth request.
Tick ==
  /\ cbPc = "done"
  /\ pc = "none"
  /\ now + TickStep <= MaxTicks * TickStep
  /\ now' = now + TickStep
  /\ UNCHANGED <<clientVars, cbVars, homeVars>>

\* -------------------------------------------------------------- the verifier
\* The credential the callback's page stored in the browser, if any.
Delivered == {cbRes[k].token : k \in {k \in 1..Len(cbRes) : cbRes[k].status = 200}}

\* A credential whose payload was edited after signing (signature kept).
TamperToken(jwt) == [jwt EXCEPT !.payload.accessToken = "at-evil"]
TamperExp(jwt) == [jwt EXCEPT !.payload.exp = @ + ExpiresIn]

\* A credential signed with a secret that is not the server's.
Forged(t) == JwtSign([user |-> "mallory", accessToken |-> "at-evil"], OtherSecret, t)

NoHeader == [present |-> FALSE, chars |-> <<>>]
HeaderOf(chars) == [present |-> TRUE, chars |-> chars]

\* The Authorization headers a request may carry at time t.
Headers(t) ==
  {NoHeader, HeaderOf(<<Bearer>>), HeaderOf(<<Bearer, SP>>),
   HeaderOf(<<Bearer, SP, Garbage>>), HeaderOf(<<Bearer, SP, Forged(t)>>)}
  \cup UNION {{HeaderOf(<<Bearer, SP, j>>), HeaderOf(<<Bearer, SP, TamperToken(j)>>),
               HeaderOf(<<Bearer, SP, TamperExp(j)>>), HeaderOf(<<Bearer, SP, SP, j>>),
               HeaderOf(<<j>>)} : j \in Delivered}

\* String.prototype.split(' '): the words between the spaces.
RECURSIVE SplitFrom(_, _, _)
SplitFrom(s, cur, acc) ==
  IF s = <<>> THEN Append(acc, cur)
  ELSE IF Head(s) = SP THEN SplitFrom(Tail(s), <<>>, Append(acc, cur))
  ELSE SplitFrom(Tail(s), Append(cur, Head(s)), acc)

Split(s) == SplitFrom(s, <<>>, <<>>)

\* req.headers.authorization?.split(' ')[1]
ExtractToken(h) ==
  IF ~h.present THEN [defined |-> FALSE, str |-> <<>>]
  ELSE LET parts == Split(h.chars)
       IN IF Len(parts) >= 2 THEN [defined |-> TRUE, str |-> parts[2]]
          ELSE [defined |-> FALSE, str |-> <<>>]

\* !token
NoToken(token) == ~token.defined \/ token.str = <<>>

Unauthorized == [status |-> 401, json |-> [message |-> "Unauthorized"]]
FetchError == [status |-> 500, text |-> "Error fetching data from GitLab"]

\* ------------------------------------------------------------- the upstream
EventsUrl == [kind |-> "events", id |-> 0]
GroupsUrl == [kind |-> "groups", id |-> 0]
ProjectsUrl(gid) == [kind |-> "projects", id |-> gid]
CommitsUrl(pid) == [kind |-> "commits", id |-> pid]

\* What the provider holds: n groups, m projects of a group, c commits of a
\* project (most recent first), each in the provider's own order.
EventsData == <<[action_name |-> "pushed to"]>>
GroupsData(n) == [k \in 1..n |-> [id |-> n + 1 - k]]
ProjectsData(gid, m) == [k \in 1..m |-> [id |-> 10 * gid + (m + 1 - k)]]
CommitsData(pid, c) == [k \in 1..c |-> [short_id |-> 10 * pid + k]]

\* axios.get(url, { headers: { Authorization: `Bearer ${accessToken}` } })
GetWithoutToken(url, bearer) == [url |-> url, bearer |-> "undefined"]

Get(url, bearer) == [url |-> url, bearer |-> bearer]

\* ------------------------------------------------------------------- home
\* groups.map(async (group) => { axios.get(`.../groups/${group.id}/projects`
ProjectCallsEager(gs, bearer) ==
  {Get(ProjectsUrl(gs[i].id), bearer) : i \in 1..Len(gs)}
  \cup {Get(CommitsUrl(10 * gs[i].id + 1), bearer) : i \in 1..Len(gs)}

ProjectCalls(gs, bearer) ==
  {Get(ProjectsUrl(gs[i].id), bearer) : i \in 1..Len(gs)}

\* projects.map(async (project) => { axios.get(`.../projects/${project.id}/repository/commits`
CommitCalls(ps, bearer) ==
  {Get(CommitsUrl(ps[j].id), bearer) : j \in 1..Len(ps)}

\* The calls among `calls` that are issued once some call has failed.
Late(calls) == IF failed # {} THEN calls ELSE {}

\* commitsResponse.data[0]
First(data) == IF Len(data) >= 1 THEN data[1] ELSE Undefined

\* { ...project, latest_commit: commitsResponse.data[0] }
WithCommit(project, data) == ("latest_commit" :> First(data)) @@ project

\* { ...group, projects: projectsWithCommits }
WithProjects(group, values) == ("projects" :> values) @@ group

\* JSON.stringify leaves out a property whose value is undefined.
JsonProjectKeepsUndefined(p) == p

JsonProject(p) ==
  [k \in {k \in DOMAIN p : k # "latest_commit" \/ p[k] # Undefined} |-> p[k]]

JsonGroup(g) ==
  [id |-> g.id, projects |-> [j \in 1..Len(g.projects) |-> JsonProject(g.projects[j])]]

\* res.json({ user, activities, groups })
Composed(user, acts, values) ==
  [status |-> 200,
   json |-> [user |-> user, activities |-> acts,
             groups |-> [i \in 1..Len(values) |-> JsonGroup(values[i])]]]

\* No Promise.all yet: the code has not reached the call.
NoAll == [state |-> "none", values |-> <<>>, remaining |-> 0]

\* A new Promise.all over n promises.
NewAll(n) == [state |-> IF n = 0 THEN "fulfilled" ELSE "pending",
              values |-> [k \in 1..n |-> Hole], remaining |-> n]

\* Promise.all: the k-th promise fulfilled with v.
FulfilInCompletionOrder(all, k, v) ==
  LET at == CHOOSE p \in 1..Len(all.values) :
              /\ all.values[p] = Hole
              /\ \A q \in 1..(p - 1) : all.values[q] # Hole
  IN [state |-> IF all.state = "pending" /\ all.remaining = 1 THEN "fulfilled"
                ELSE all.state,
      values |-> [all.values EXCEPT ![at] = v],
      remaining |-> all.remaining - 1]

Fulfil(all, k, v) ==
  [state |-> IF all.state = "pending" /\ all.remaining = 1 THEN "fulfilled"
             ELSE all.state,
   values |-> [all.values EXCEPT ![k] = v],
   remaining |-> all.remaining - 1]

\* Promise.all: one of its promises rejected.
RejectSwallowed(all) == all

Reject(all) == [all EXCEPT !.state = IF @ = "pending" THEN "rejected" ELSE @]

\* home after `await Promise.all(groups.map(...))` settled: the composed
\* JSON, the catch's 500, or nothing when it had settled before.
SettleEveryRejection(before, after) ==
  IF before.state = "pending" /\ after.state = "fulfilled"
  THEN /\ res' = Append(res, Composed(reqUser.user, activities, after.values))
       /\ pc' = "done"
  ELSE IF after.state = "rejected"
  THEN /\ res' = Append(res, FetchError)
       /\ pc' = "done"
  ELSE UNCHANGED <<res, pc>>

Settle(before, after) ==
  IF before.state = "pending" /\ after.state = "fulfilled"
  THEN /\ res' = Append(res, Composed(reqUser.user, activities, after.values))
       /\ pc' = "done"
  ELSE IF before.state = "pending" /\ after.state = "rejected"
  THEN /\ res' = Append(res, FetchError)
       /\ pc' = "done"
  ELSE UNCHANGED <<res, pc>>

\* GET /home/auth arrives: isAuthenticated, then home up to its first await.
isAuthenticated(h) ==
  /\ pc = "none"
  /\ cbPc \in {"idle", "done"}
  /\ reqHeader' = h
  /\ LET token == ExtractToken(h)
         decoded == JwtVerify(token.str, JWT_SECRET, now)
     IN IF NoToken(token) \/ decoded = Undefined
        THEN /\ res' = Append(res, Unauthorized)
             /\ pc' = "done"
             /\ UNCHANGED <<reqUser, issued>>
        ELSE /\ reqUser' = decoded
             /\ issued' = issued \cup {Get(EventsUrl, decoded.accessToken)}
             /\ pc' = "awaitActivities"
             /\ UNCHANGED res
  /\ UNCHANGED <<clientVars, now, cbVars, served, failed, late, activities, groups,
                 projCall, projects, commitCall, innerAll, outerAll>>

\* The events GET answered: the groups GET is issued.
ActivitiesOk ==
  /\ pc = "awaitActivities"
  /\ activities' = EventsData
  /\ served' = served \cup {<<EventsUrl, EventsData>>}
  /\ issued' = issued \cup {Get(GroupsUrl, reqUser.accessToken)}
  /\ pc' = "awaitGroups"
  /\ UNCHANGED <<clientVars, now, cbVars, reqHeader, reqUser, res, failed, late, groups,
                 projCall, projects, commitCall, innerAll, outerAll>>

\* The events GET failed: catch, the generic 500.
ActivitiesFailContinues ==
  /\ pc = "awaitActivities"
  /\ failed' = failed \cup {EventsUrl}
  /\ issued' = issued \cup {Get(GroupsUrl, reqUser.accessToken)}
  /\ late' = late \cup {Get(GroupsUrl, reqUser.accessToken)}
  /\ pc' = "awaitGroups"
  /\ UNCHANGED <<clientVars, now, cbVars, reqHeader, reqUser, res, served, activities,
                 groups, projCall, projects, commitCall, innerAll, outerAll>>

ActivitiesFail ==
  /\ pc = "awaitActivities"
  /\ failed' = failed \cup {EventsUrl}
  /\ res' = Append(res, FetchError)
  /\ pc' = "done"
  /\ UNCHANGED <<clientVars, now, cbVars, reqHeader, reqUser, issued, served, late, activities,
                 groups, projCall, projects, commitCall, innerAll, outerAll>>

\* The groups GET answered with n groups: one project-list GET per group.
GroupsOk(n) ==
  /\ pc = "awaitGroups"
  /\ groups' = GroupsData(n)
  /\ served' = served \cup {<<GroupsUrl, GroupsData(n)>>}
  /\ issued' = issued \cup ProjectCalls(GroupsData(n), reqUser.accessToken)
  /\ late' = late \cup Late(ProjectCalls(GroupsData(n), reqUser.accessToken))
  /\ projCall' = [i \in 1..n |-> "pending"]
  /\ projects' = [i \in 1..n |-> <<>>]
  /\ commitCall' = [i \in 1..n |-> <<>>]
  /\ innerAll' = [i \in 1..n |-> NoAll]
  /\ outerAll' = NewAll(n)
  /\ IF n = 0
     THEN /\ res' = Append(res, Composed(reqUser.user, activities, <<>>))
          /\ pc' = "done"
     ELSE /\ pc' = "awaitAll"
          /\ UNCHANGED res
  /\ UNCHANGED <<clientVars, now, cbVars, reqHeader, reqUser, failed, activities>>

\* The groups GET failed: catch, the generic 500.
GroupsFail ==
  /\ pc = "awaitGroups"
  /\ failed' = failed \cup {GroupsUrl}
  /\ res' = Append(res, FetchError)
  /\ pc' = "done"
  /\ UNCHANGED <<clientVars, now, cbVars, reqHeader, reqUser, issued, served, late, activities,
                 groups, projCall, projects, commitCall, innerAll, outerAll>>

\* Projects held by the project lists answered so far.
RECURSIVE TotalLen(_)
TotalLen(seqs) == IF seqs = <<>> THEN 0 ELSE Len(Head(seqs)) + TotalLen(Tail(seqs))

\* Group i's project-list GET answered with m projects: its closure issues one
\* commits GET per project; with no project it returns at once.
ProjectsOk(i, m) ==
  /\ i \in 1..Len(groups)
  /\ projCall[i] = "pending"
  /\ TotalLen(projects) + m <= MaxProjectsTotal
  /\ LET data == ProjectsData(groups[i].id, m)
         inner == NewAll(m)
         outer == IF inner.state = "fulfilled"
                  THEN Fulfil(outerAll, i, WithProjects(groups[i], inner.values))
                  ELSE outerAll
     IN /\ projCall' = [projCall EXCEPT ![i] = "ok"]
        /\ projects' = [projects EXCEPT ![i] = data]
        /\ served' = served \cup {<<ProjectsUrl(groups[i].id), data>>}
        /\ issued' = issued \cup CommitCalls(data, reqUser.accessToken)
        /\ late' = late \cup Late(CommitCalls(data, reqUser.accessToken))
        /\ commitCall' = [commitCall EXCEPT ![i] = [j \in 1..m |-> "pending"]]
        /\ innerAll' = [innerAll EXCEPT ![i] = inner]
        /\ outerAll' = outer
        /\ Settle(outerAll, outer)
  /\ UNCHANGED <<clientVars, now, cbVars, reqHeader, reqUser, failed, activities, groups>>

\* Group i's project-list GET failed: its closure rejects, and with it the
\* outer Promise.all unless that had settled.
ProjectsFail(i) ==
  /\ i \in 1..Len(groups)
  /\ projCall[i] = "pending"
  /\ projCall' = [projCall EXCEPT ![i] = "failed"]
  /\ failed' = failed \cup {ProjectsUrl(groups[i].id)}
  /\ outerAll' = Reject(outerAll)
  /\ Settle(outerAll, outerAll')
  /\ UNCHANGED <<clientVars, now, cbVars, reqHeader, reqUser, issued, served, late, activities,
                 groups, projects, commitCall, innerAll>>

\* The commits GET of project j of group i answered with c commits: the
\* project closure returns, which may complete the group and the whole.
CommitsOk(i, j, c) ==
  /\ i \in 1..Len(groups)
  /\ j \in 1..Len(commitCall[i])
  /\ commitCall[i][j] = "pending"
  /\ LET data == CommitsData(projects[i][j].id, c)
         inner == Fulfil(innerAll[i], j, WithCommit(projects[i][j], data))
         outer == IF innerAll[i].state = "pending" /\ inner.state = "fulfilled"
                  THEN Fulfil(outerAll, i, WithProjects(groups[i], inner.values))
                  ELSE outerAll
     IN /\ commitCall' = [commitCall EXCEPT ![i][j] = "ok"]
        /\ served' = served \cup {<<CommitsUrl(projects[i][j].id), data>>}
        /\ innerAll' = [innerAll EXCEPT ![i] = inner]
        /\ outerAll' = outer
        /\ Settle(outerAll, outer)
  /\ UNCHANGED <<clientVars, now, cbVars, reqHeader, reqUser, issued, failed, late,
                 activities, groups, projCall, projects>>

\* The commits GET of project j of group i failed: the inner Promise.all
\* rejects, so does the group closure and the outer Promise.all.
CommitsFail(i, j) ==
  /\ i \in 1..Len(groups)
  /\ j \in 1..Len(commitCall[i])
  /\ commitCall[i][j] = "pending"
  /\ LET inner == Reject(innerAll[i])
         outer == IF innerAll[i].state = "pending" THEN Reject(outerAll)
                  ELSE outerAll
     IN /\ commitCall' = [commitCall EXCEPT ![i][j] = "failed"]
        /\ failed' = failed \cup {CommitsUrl(projects[i][j].id)}
        /\ innerAll' = [innerAll EXCEPT ![i] = inner]
        /\ outerAll' = outer
        /\ Settle(outerAll, outer)
  /\ UNCHANGED <<clientVars, now, cbVars, reqHeader, reqUser, issued, served, late,
                 activities, groups, projCall, projects>>


\* ------------------------------------------------------- the browser client
\* localStorage.getItem / URLSearchParams.get of a key that is not there.
Null == "null"
\* The credentials a browser may hold or be handed.
Tokens == {"jwtA", "jwtB"}
\* How a fetch may end: response.ok, a non-OK status, a rejected fetch.
Outcomes == {"ok", "notOk", "networkError"}

FetchAlert == "Error fetching user data. Please try again."
LogoutAlert == "Error during logout. Please try again."

serverVars == <<now, cbVars, homeVars>>

\* fetch(path, { headers: { Authorization: `Bearer ${localStorage.getItem('token')}` } })
Fetch(id, kind, bearer) == [id |-> id, kind |-> kind, bearer |-> bearer]

Event(kind, outcome, bearer) == [kind |-> kind, outcome |-> outcome, bearer |-> bearer]

\* DOMContentLoaded: checkAuthentication(), then setupEventListeners().
DOMContentLoaded ==
  /\ page = "loading"
  /\ nextId + 1 <= MaxRequests
  /\ LET verify == IF storage # Null
                   THEN {Fetch(nextId, "verify", storage)} ELSE {}
         userData == IF urlToken # Null
                     THEN {Fetch(nextId + Cardinality(verify), "fetch", urlToken)} ELSE {}
     IN /\ inflight' = verify \cup userData
        /\ nextId' = nextId + Cardinality(verify) + Cardinality(userData)
        /\ storage' = IF urlToken # Null THEN urlToken ELSE storage
        /\ ui' = IF urlToken # Null THEN "authenticated"
                 ELSE IF storage = Null THEN "unauthenticated" ELSE ui
        /\ content' = IF storage = Null THEN "" ELSE content
  /\ urlToken' = Null
  /\ page' = "ready"
  /\ lastEvent' = Event("load", "ok", storage')
  /\ UNCHANGED <<alerts, serverVars>>

\* The login button: window.location.href = '/login'. The page is left and
\* its fetches are dropped.
LoginClick ==
  /\ page = "ready"
  /\ ui # "authenticated"
  /\ page' = "away"
  /\ inflight' = {}
  /\ lastEvent' = Event("login", "ok", storage)
  /\ UNCHANGED <<urlToken, storage, ui, content, alerts, nextId, serverVars>>

\* Back from the provider: the callback's page stored a credential and went
\* to '/', or the login failed (Null) and the user went back to '/'.
ReturnFromLogin(tok) ==
  /\ page = "away"
  /\ storage' = IF tok # Null THEN tok ELSE storage
  /\ page' = "loading"
  /\ ui' = "initial"
  /\ content' = ""
  /\ lastEvent' = Event("return", "ok", storage')
  /\ UNCHANGED <<urlToken, alerts, inflight, nextId, serverVars>>

\* The logout button: logoutUser() up to its await.
LogoutClick ==
  /\ page = "ready"
  /\ ui = "authenticated"
  /\ nextId <= MaxRequests
  /\ inflight' = inflight \cup {Fetch(nextId, "logout", storage)}
  /\ nextId' = nextId + 1
  /\ lastEvent' = Event("logoutClick", "ok", storage)
  /\ UNCHANGED <<page, urlToken, storage, ui, content, alerts, serverVars>>

\* verifyTokenAndFetchUserData() after its await.
VerifyResponseKeepsToken(r, outcome) ==
  /\ page = "ready"
  /\ r \in inflight /\ r.kind = "verify"
  /\ outcome = "ok" => nextId <= MaxRequests
  /\ IF outcome = "ok"
     THEN /\ ui' = "authenticated"
          /\ inflight' = (inflight \ {r}) \cup {Fetch(nextId, "fetch", storage)}
          /\ nextId' = nextId + 1
          /\ UNCHANGED <<storage, content>>
     ELSE /\ ui' = "unauthenticated"
          /\ content' = ""
          /\ inflight' = inflight \ {r}
          /\ UNCHANGED <<storage, nextId>>
  /\ lastEvent' = Event("verify", outcome, r.bearer)
  /\ UNCHANGED <<page, urlToken, alerts, serverVars>>

VerifyResponse(r, outcome) ==
  /\ page = "ready"
  /\ r \in inflight /\ r.kind = "verify"
  /\ outcome = "ok" => nextId <= MaxRequests
  /\ IF outcome = "ok"
     THEN /\ ui' = "authenticated"
          /\ inflight' = (inflight \ {r}) \cup {Fetch(nextId, "fetch", storage)}
          /\ nextId' = nextId + 1
          /\ UNCHANGED <<storage, content>>
     ELSE /\ storage' = Null
          /\ ui' = "unauthenticated"
          /\ content' = ""
          /\ inflight' = inflight \ {r}
          /\ UNCHANGED nextId
  /\ lastEvent' = Event("verify", outcome, r.bearer)
  /\ UNCHANGED <<page, urlToken, alerts, serverVars>>

\* fetchUserData() after its await: displayUserData(data), or the alert.
FetchResponse(r, outcome) ==
  /\ page = "ready"
  /\ r \in inflight /\ r.kind = "fetch"
  /\ inflight' = inflight \ {r}
  /\ IF outcome = "ok"
     THEN /\ content' = "user data"
          /\ UNCHANGED alerts
     ELSE /\ alerts' = alerts \cup {FetchAlert}
          /\ UNCHANGED content
  /\ lastEvent' = Event("fetch", outcome, r.bearer)
  /\ UNCHANGED <<page, urlToken, storage, ui, nextId, serverVars>>

\* logoutUser() after its await: the credential is removed and the page goes
\* to '/', or the alert.
LogoutResponse(r, outcome) ==
  /\ page = "ready"
  /\ r \in inflight /\ r.kind = "logout"
  /\ IF outcome = "ok"
     THEN /\ storage' = Null
          /\ ui' = "initial"
          /\ content' = ""
          /\ page' = "loading"
          /\ inflight' = {}
          /\ UNCHANGED alerts
     ELSE /\ alerts' = alerts \cup {LogoutAlert}
          /\ inflight' = inflight \ {r}
          /\ UNCHANGED <<storage, ui, content, page>>
  /\ lastEvent' = Event("logout", outcome, r.bearer)
  /\ UNCHANGED <<urlToken, nextId, serverVars>>

\* ----------------------------------------------------------- specification
\* No request has arrived at the server yet.
ServerFresh ==
  /\ now = 0
  /\ cbPc = "idle"
  /\ cbQuery = [present |-> FALSE, code |-> ""]
  /\ accessToken = ""
  /\ oauthLog = <<>>
  /\ cbRes = <<>>
  /\ pc = "none"
  /\ reqHeader = NoHeader
  /\ reqUser = Undefined
  /\ res = <<>>
  /\ issued = {}
  /\ served = {}
  /\ failed = {}
  /\ late = {}
  /\ activities = <<>>
  /\ groups = <<>>
  /\ projCall = <<>>
  /\ projects = <<>>
  /\ commitCall = <<>>
  /\ innerAll = <<>>
  /\ outerAll = NoAll

\* The server alone, with no page open.
Init ==
  /\ page = "away"
  /\ urlToken = Null
  /\ storage = Null
  /\ ui = "initial"
  /\ content = ""
  /\ alerts = {}
  /\ inflight = {}
  /\ nextId = 1
  /\ lastEvent = Event("none", "ok", Null)
  /\ ServerFresh

\* A page load: a credential may be left in localStorage from an earlier
\* visit, and the address may carry a token parameter.
ClientInit ==
  /\ page = "loading"
  /\ urlToken \in {Null, "jwtB"}
  /\ storage \in {Null, "jwtA"}
  /\ ui = "initial"
  /\ content = ""
  /\ alerts = {}
  /\ inflight = {}
  /\ nextId = 1
  /\ lastEvent = Event("none", "ok", Null)
  /\ ServerFresh

Next ==
  \/ Tick
  \/ \E q \in Queries : callback(q)
  \/ \E at \in AccessTokens : TokenExchangeOk(at)
  \/ TokenExchangeFail
  \/ UserOk
  \/ UserFail
  \/ \E h \in Headers(now) : isAuthenticated(h)
  \/ ActivitiesOk
  \/ ActivitiesFail
  \/ \E n \in 0..GroupsPerPage : GroupsOk(n)
  \/ GroupsFail
  \/ \E i \in 1..GroupsPerPage, m \in 0..ProjectsPerPage : ProjectsOk(i, m)
  \/ \E i \in 1..GroupsPerPage : ProjectsFail(i)
  \/ \E i \in 1..GroupsPerPage, j \in 1..ProjectsPerPage, c \in 0..CommitsPerPage :
       CommitsOk(i, j, c)
  \/ \E i \in 1..GroupsPerPage, j \in 1..ProjectsPerPage : CommitsFail(i, j)

Spec == Init /\ [][Next]_vars

\* The browser client against a server whose answers are arbitrary.
ClientNext ==
  \/ DOMContentLoaded
  \/ LoginClick
  \/ \E tok \in Tokens \cup {Null} : ReturnFromLogin(tok)
  \/ LogoutClick
  \/ \E r \in inflight, o \in Outcomes : VerifyResponse(r, o)
  \/ \E r \in inflight, o \in Outcomes : FetchResponse(r, o)
  \/ \E r \in inflight, o \in Outcomes : LogoutResponse(r, o)

SpecClient == ClientInit /\ [][ClientNext]_vars

\* ------------------------------------------------------------------ claims
\* The token part of a header: what stands between its first space and the
\* next one (or the end); <<>> when nothing does or the header has no space.
FirstSpace(chars) ==
  IF \E k \in 1..Len(chars) : chars[k] = SP
  THEN CHOOSE k \in 1..Len(chars) : chars[k] = SP /\ \A l \in 1..(k - 1) : chars[l] # SP
  ELSE 0

HasTokenPart(h) ==
  /\ h.present
  /\ FirstSpace(h.chars) # 0
  /\ FirstSpace(h.chars) < Len(h.chars)
  /\ h.chars[FirstSpace(h.chars) + 1] # SP

TokenPart(h) == h.chars[FirstSpace(h.chars) + 1]

\* The request carries a credential the callback minted, unchanged.
Genuine(h) == HasTokenPart(h) /\ TokenPart(h) \in Delivered

\* ... and the request arrived after the credential's expiry (the clock
\* stops at the arrival).
Expired(h) == Genuine(h) /\ now >= TokenPart(h).payload.iat + ExpiresIn

\* The cases of C1: no header, no token part, a token that is malformed,
\* tampered with or signed by another key, or a genuine one past its expiry.
Refusable(h) == ~h.present \/ ~HasTokenPart(h) \/ ~Genuine(h) \/ Expired(h)

\* C1: a /home/auth request whose Authorization header is missing, has no
\* token part after the first space, or carries a malformed, tampered, forged
\* or expired token is answered 401 exactly once; the home handler never runs
\* for it and no upstream call is issued.
C1_RefusedWith401 ==
  (pc # "none" /\ Refusable(reqHeader)) =>
     /\ res = <<Unauthorized>>
     /\ pc = "done"
     /\ reqUser = Undefined
     /\ issued = {}
     /\ served = {}
     /\ failed = {}

\* An expired credential with a valid signature was refused.
C1_Witness ==
  /\ pc = "done"
  /\ Expired(reqHeader)
  /\ TokenPart(reqHeader).sig = Hmac(TokenPart(reqHeader).payload, JWT_SECRET)
  /\ res = <<Unauthorized>>

\* C2: for an unexpired, untampered credential minted by the callback,
\* verification succeeds and hands home the embedded user and upstream token
\* (the ones the provider gave the callback): every upstream call of the
\* aggregation carries that token as bearer, and the user of the composed
\* response is the embedded profile.
C2_EmbeddedPayloadUsed ==
  (pc # "none" /\ Genuine(reqHeader) /\ ~Expired(reqHeader)) =>
     LET embedded == TokenPart(reqHeader).payload
     IN /\ embedded.accessToken = accessToken
        /\ embedded.user = Owner(accessToken)
        /\ reqUser.user = embedded.user
        /\ reqUser.accessToken = embedded.accessToken
        /\ issued # {}
        /\ \A c \in issued : c.bearer = embedded.accessToken
        /\ \A k \in 1..Len(res) :
             /\ res[k].status # 401
             /\ res[k].status = 200 => res[k].json.user = embedded.user

\* A composed response was sent for a genuine credential after the whole
\* fan-out, commits included.
C2_Witness ==
  /\ Genuine(reqHeader)
  /\ Len(res) = 1
  /\ res[1].status = 200
  /\ \E c \in issued : c.url.kind = "commits"
  /\ now > 0

\* C3: GET /callback without a code parameter is answered 400, and neither
\* the token-exchange POST nor the profile GET is issued, nor a credential
\* minted.
C3_MissingCodeIs400 ==
  (cbPc # "idle" /\ ~cbQuery.present) =>
     /\ cbRes = <<BadRequest>>
     /\ cbPc = "done"
     /\ oauthLog = <<>>
     /\ Delivered = {}

\* The callback without a code has answered.
C3_Witness == cbPc = "done" /\ ~cbQuery.present /\ cbRes = <<BadRequest>>

\* C4: with a code, the credential is minted and delivered only after the
\* token exchange and then the profile GET (with the token just obtained)
\* both succeeded, in that order; if either fails the answer is the generic
\* 500, nothing is minted, the profile GET is not attempted after a failed
\* exchange, and no call is repeated.
C4_MintOnlyAfterBothSteps ==
  (cbPc # "idle" /\ cbQuery.present /\ cbQuery.code # "") =>
     /\ Len(oauthLog) \in 1..2
     /\ oauthLog[1].method = "POST" /\ oauthLog[1].with = cbQuery.code
     /\ Len(oauthLog) = 2 =>
          /\ oauthLog[1].outcome = "ok"
          /\ oauthLog[2].method = "GET" /\ oauthLog[2].with = accessToken
     /\ Len(cbRes) <= 1
     /\ Delivered # {} =>
          /\ Len(oauthLog) = 2
          /\ \A k \in 1..2 : oauthLog[k].outcome = "ok"
          /\ \A j \in Delivered :
               /\ j.payload.accessToken = accessToken
               /\ j.payload.user = Owner(accessToken)
     /\ (\E k \in 1..Len(oauthLog) : oauthLog[k].outcome = "failed") =>
          /\ cbRes = <<OAuthError>>
          /\ cbPc = "done"
          /\ Delivered = {}
     /\ oauthLog[1].outcome = "failed" => Len(oauthLog) = 1

\* The profile GET failed after a successful exchange: 500, nothing minted.
C4_Witness ==
  /\ cbPc = "done"
  /\ Len(oauthLog) = 2
  /\ oauthLog[1].outcome = "ok"
  /\ oauthLog[2].outcome = "failed"
  /\ cbRes = <<OAuthError>>

\* What the provider answered to a call, by url.
WasServed(url) == \E e \in served : e[1] = url
DataOf(url) == (CHOOSE e \in served : e[1] = url)[2]
Ids(seq) == [k \in 1..Len(seq) |-> seq[k].id]
Sent200 == {k \in 1..Len(res) : res[k].status = 200}

\* Every call of the fan-out was answered: events, groups, the project list
\* of every group the provider returned, the commits of every project.
AllSucceeded ==
  /\ failed = {}
  /\ WasServed(EventsUrl)
  /\ WasServed(GroupsUrl)
  /\ \A i \in 1..Len(DataOf(GroupsUrl)) :
       LET purl == ProjectsUrl(DataOf(GroupsUrl)[i].id)
       IN /\ WasServed(purl)
          /\ \A j \in 1..Len(DataOf(purl)) : WasServed(CommitsUrl(DataOf(purl)[j].id))

\* C5: aggregation is all-or-nothing: the composed JSON is sent only if the
\* events, groups, every project-list and every commits call succeeded; once
\* any of them has failed the one response is the generic 500, which holds
\* no activities, groups or projects.
C5_AllOrNothing ==
  /\ Sent200 # {} => AllSucceeded
  /\ failed # {} => res = <<FetchError>>

\* One commits call failed, every other call of the fan-out was answered,
\* and the response is the 500.
C5_Witness ==
  /\ Cardinality(failed) = 1
  /\ \E f \in failed : f.kind = "commits"
  /\ \E e \in served : e[1].kind = "commits" /\ Len(e[2]) = 1
  /\ \A i \in 1..Len(groups) :
       /\ projCall[i] = "ok"
       /\ \A j \in 1..Len(commitCall[i]) : commitCall[i][j] # "pending"
  /\ res = <<FetchError>>

\* C6: the composed response holds exactly the groups the provider returned,
\* in its order, and group i holds exactly the projects the provider returned
\* for that group, in its order.
C6_UpstreamOrderKept ==
  \A k \in Sent200 :
     LET gs == res[k].json.groups
     IN /\ Ids(gs) = Ids(DataOf(GroupsUrl))
        /\ \A i \in 1..Len(gs) :
             Ids(gs[i].projects) = Ids(DataOf(ProjectsUrl(gs[i].id)))

\* A composed response with several groups, one holding two projects and
\* another one project.
C6_Witness ==
  \E k \in Sent200 :
     LET gs == res[k].json.groups
     IN \E a, b \in 1..Len(gs) :
          a # b /\ Len(gs[a].projects) = 2 /\ Len(gs[b].projects) = 1

\* C7: in the composed response a project whose commits call returned no
\* commit has no latest_commit field, and a project whose commits call
\* returned commits carries the first commit returned for that very project.
C7_LatestCommitOfOwnProject ==
  \A k \in Sent200 :
     LET gs == res[k].json.groups
     IN \A i \in 1..Len(gs) : \A j \in 1..Len(gs[i].projects) :
          LET p == gs[i].projects[j]
              d == DataOf(CommitsUrl(p.id))
          IN /\ Len(d) = 0 => "latest_commit" \notin DOMAIN p
             /\ Len(d) >= 1 => /\ "latest_commit" \in DOMAIN p
                               /\ p.latest_commit = d[1]

\* A composed response with one project that has a commit and one that has
\* none.
C7_Witness ==
  \E k \in Sent200 :
     LET gs == res[k].json.groups
     IN /\ \E i \in 1..Len(gs) : \E j \in 1..Len(gs[i].projects) :
             "latest_commit" \notin DOMAIN gs[i].projects[j]
        /\ \E i \in 1..Len(gs) : \E j \in 1..Len(gs[i].projects) :
             "latest_commit" \in DOMAIN gs[i].projects[j]

\* C9: calls are issued in dependency order: a project-list call only for a
\* group of the answered groups call, a commits call only for a project of
\* an answered project-list call.
C9_DependencyOrder ==
  \A c \in issued :
     /\ c.url.kind = "projects" =>
          /\ WasServed(GroupsUrl)
          /\ \E i \in 1..Len(DataOf(GroupsUrl)) : DataOf(GroupsUrl)[i].id = c.url.id
     /\ c.url.kind = "commits" =>
          /\ WasServed(GroupsUrl)
          /\ \E i \in 1..Len(DataOf(GroupsUrl)) :
               LET purl == ProjectsUrl(DataOf(GroupsUrl)[i].id)
               IN /\ WasServed(purl)
                  /\ \E j \in 1..Len(DataOf(purl)) : DataOf(purl)[j].id = c.url.id

\* One group's commits calls are out while another group's project list is
\* still awaited.
C9_Witness ==
  /\ \E c \in issued : c.url.kind = "commits"
  /\ \E i \in 1..Len(groups) : projCall[i] = "pending"

\* The group a project-list or commits url belongs to (project ids are
\* 10 * group id + k).
GroupOfUrl(url) == IF url.kind = "projects" THEN url.id ELSE url.id \div 10

\* C10 as stated: once a call of the request has failed, no further call is
\* issued for it.
C10_NoCallAfterFailure == [][failed' # {} => issued' = issued]_vars

\* C10 amended: after a failure only commits calls are issued, and only by
\* groups none of whose own calls has failed; after a failed events or groups
\* call nothing is issued.
C10_OnlyOtherGroupsGoOn ==
  [][\A c \in issued' \ issued :
        failed' # {} =>
          /\ c.url.kind = "commits"
          /\ \A f \in failed' :
               /\ f.kind \in {"projects", "commits"}
               /\ GroupOfUrl(f) # GroupOfUrl(c.url)]_vars

\* A commits call was issued although a call had failed before.
C10_Witness == \E c \in late : c.url.kind = "commits" /\ res = <<FetchError>>

\* C8 as stated: whenever a request to /home/auth fails, be it the
\* verification request of the page load or the data-fetch request, the
\* stored credential is removed and the unauthenticated view is shown.
C8_AnyFailureClearsCredential ==
  [][(lastEvent'.kind \in {"verify", "fetch"} /\ lastEvent'.outcome # "ok") =>
        (storage' = Null /\ ui' = "unauthenticated")]_vars

\* C8 amended: a failed verification request removes the stored credential
\* and shows the unauthenticated view; a failed data-fetch request only
\* raises the alert and leaves the stored credential and the view as they
\* were.
C8_OnlyVerificationClearsCredential ==
  [][/\ (lastEvent'.kind = "verify" /\ lastEvent'.outcome # "ok") =>
          (storage' = Null /\ ui' = "unauthenticated" /\ content' = "")
     /\ (lastEvent'.kind = "fetch" /\ lastEvent'.outcome # "ok") =>
          (storage' = storage /\ ui' = ui /\ FetchAlert \in alerts')]_vars

\* A data-fetch request has failed and the credential is still stored under
\* the authenticated view.
C8_Witness ==
  /\ lastEvent.kind = "fetch"
  /\ lastEvent.outcome = "notOk"
  /\ storage # Null
  /\ ui = "authenticated"
  /\ FetchAlert \in alerts

\* The calls of the fan-out that are out and have not ended: <<i, 0>> is the
\* project-list call of group i, <<i, j>> the commits call of its project j.
PendingCalls ==
  {<<i, 0>> : i \in {i \in 1..Len(projCall) : projCall[i] = "pending"}}
  \cup UNION {{<<i, j>> : j \in {j \in 1..Len(commitCall[i]) : commitCall[i][j] = "pending"}}
              : i \in 1..Len(commitCall)}

\* The request passed the verifier.
Verified == reqUser # Undefined

\* C11: a verified /home/auth request gets exactly one response: never a
\* second one, the one sent never changes, and one has been sent once no call
\* is outstanding. The step that sends the 500 cancels no other outstanding
\* call, and after it every outstanding call can still succeed or fail.
C11_ExactlyOneResponse ==
  [][/\ Len(res') <= 1
     /\ Len(res) = 1 => res' = res
     /\ (Verified' /\ pc' = "done") => Len(res') = 1
     /\ (Verified' /\ pc' \in {"awaitAll", "done"} /\ PendingCalls' = {}) => Len(res') = 1
     /\ (res = <<>> /\ res' = <<FetchError>>) =>
          Cardinality(PendingCalls') >= Cardinality(PendingCalls) - 1
     /\ res' = <<FetchError>> =>
          \A c \in PendingCalls' :
             IF c[2] = 0
             THEN (ENABLED ProjectsOk(c[1], 0))' /\ (ENABLED ProjectsFail(c[1]))'
             ELSE (ENABLED CommitsOk(c[1], c[2], 1))' /\ (ENABLED CommitsFail(c[1], c[2]))']_vars

\* The 500 was sent once although calls of two groups failed, and after the
\* first failure further calls were issued and answered.
C11_Witness ==
  /\ res = <<FetchError>>
  /\ PendingCalls = {}
  /\ \E f, g \in failed : f.kind = "projects" /\ g.kind = "commits"
  /\ \E c \in late : WasServed(c.url)

\* C12: the browser removes the stored credential only when a verification
\* request made with that same credential has failed or a logout call has
\* succeeded; a failed logout leaves it stored, and the failure of a
\* verification request sent with an older credential neither removes a
\* newer one stored since from the token parameter nor hides its
\* authenticated view.
C12_RemovedOnlyForOwnFailureOrLogout ==
  [][/\ (storage # Null /\ storage' = Null) =>
          \/ /\ lastEvent'.kind = "verify"
             /\ lastEvent'.outcome # "ok"
             /\ lastEvent'.bearer = storage
          \/ lastEvent'.kind = "logout" /\ lastEvent'.outcome = "ok"
     /\ (lastEvent'.kind = "logout" /\ lastEvent'.outcome # "ok") => storage' = storage
     /\ (lastEvent'.kind = "verify" /\ lastEvent'.outcome # "ok"
           /\ lastEvent'.bearer # storage /\ storage # Null) =>
          (storage' = storage /\ ui' = ui)]_vars

====
